---- MODULE Spec2Model ----
(***************************************************************************)
(* The wheel of src/script.js: the item list, the spin animation driven by *)
(* requestAnimationFrame, and the generate / spin / reset handlers.        *)
(*                                                                         *)
(* src/script.js holds three revisions of the page script.  The state      *)
(* machine below is the second revision (lines 614-1825); the geometry of  *)
(* the first revision (lines 10-604, repeated by the third) is modelled    *)
(* next to it, selected by the variable `revision`.                        *)
(*                                                                         *)
(* Lengths are exact integers: the canvas height is chosen so that the     *)
(* wheel height is divisible by 2 * n * FramesPerSpin^3 for every item     *)
(* count n up to MaxItems, so segment heights, half segments and the eased *)
(* offsets of a spin that starts from a planned offset are whole numbers.  *)
(* IEEE rounding of the JavaScript doubles is not modelled.                *)
(***************************************************************************)
EXTENDS Integers, Sequences, FiniteSets, TLC

VARIABLES
    revision,        \* which revision's geometry is in force (1 or 2)
    currentItems,    \* let currentItems
    originalItems,   \* let originalItems
    currentOffset,   \* let currentOffset
    isSpinning,      \* let isSpinning
    selectedIndex,   \* let selectedIndex (Null, NaN or an index)
    lastTickIndex,   \* let lastTickIndex
    localStorage,    \* the wheel-state entries of window.localStorage and
                     \* its sound preference
    currentSoundType,      \* let currentSoundType: the selected option
    currentSpinSoundType,  \* let currentSpinSoundType
    cycleIndex,            \* let cycleIndex
    rafQueue,        \* animate closures registered for the next frame
    frameQueue,      \* closures of the frame being run, not yet called
    clock,           \* performance.now() and the frame timestamp, in ms,
                     \* counted from the last moment no animation was pending
    spinCount,       \* history: number of spins accepted so far
    settled,         \* history: ids of the spins that announced a result
    epoch,           \* history: the list retained by the most recent
                     \* generate, spinCount at that moment, and whether
                     \* neither reset nor load group ran since
    lastEvent        \* history: the handler that ran last, its outcome, and
                     \* what it announced in the overlay

vars == <<currentSoundType, currentSpinSoundType, cycleIndex,
         revision, currentItems, originalItems, currentOffset, isSpinning,
          selectedIndex, lastTickIndex, localStorage,
          rafQueue, frameQueue, clock, spinCount, settled, epoch,
          lastEvent>>

(***************************************************************************)
(* Bounds of the model.                                                    *)
(***************************************************************************)
\* longest list of names entered
MaxItems == 3
\* number of clock units in one spin's duration
FramesPerSpin == 3
\* largest number of clock units between two frames
MaxDt == 2
\* number of spins accepted in one behaviour
MaxSpins == 3
\* number of animate closures pending at once
MaxLoops == 2
\* number of wheel heights, either way, the probed offsets reach
MaxTurns == 4

(***************************************************************************)
(* Values of JavaScript that are not numbers or strings of the model.      *)
(***************************************************************************)
Null == -2
NaN == -3
Undefined == "undefined"

Min(a, b) == IF a < b THEN a ELSE b

RECURSIVE Gcd(_, _)
Gcd(a, b) == IF b = 0 THEN a ELSE Gcd(b, a % b)

RECURSIVE LcmUpTo(_)
LcmUpTo(n) == IF n <= 1 THEN 1
              ELSE (LcmUpTo(n - 1) * n) \div Gcd(LcmUpTo(n - 1), n)

Cube(x) == x * x * x

\* JavaScript's % on numbers: the result takes the sign of the dividend.
JsRem(a, m) == IF a >= 0 THEN a % m ELSE -((-a) % m)

(***************************************************************************)
(* Layout: canvas.height, and the lengths every function derives from it.  *)
(***************************************************************************)
CanvasHeight == 10 * LcmUpTo(MaxItems) * Cube(FramesPerSpin)
wheelHeight == (CanvasHeight * 8) \div 10
wheelTop == (CanvasHeight - wheelHeight) \div 2
centerY == CanvasHeight \div 2
segHeight(items) == wheelHeight \div Len(items)

(***************************************************************************)
(* Geometry: which segment is under the centre line.                       *)
(* With an empty list segHeight is Infinity and the final % yields NaN.    *)
(***************************************************************************)
\* a faulty variant of the first revision: the position is divided without
\* first being reduced modulo the wheel height
getIndexAtCentre1_NoRemainder(items, offset) ==
    IF Len(items) = 0 THEN NaN
    ELSE LET posInWheel == centerY - wheelTop + offset
             index == posInWheel \div segHeight(items)
         IN  JsRem(index + Len(items), Len(items))

\* first revision (and third): the offset is added
getIndexAtCentre1(items, offset) ==
    IF Len(items) = 0 THEN NaN
    ELSE LET posInWheel == centerY - wheelTop + offset
             index == JsRem(posInWheel, wheelHeight) \div segHeight(items)
         IN  JsRem(index + Len(items), Len(items))

\* a faulty variant of the second revision: the position is not wrapped
\* into 0..wheelHeight before the division
getIndexAtCentre2_NoWrap(items, offset) ==
    IF Len(items) = 0 THEN NaN
    ELSE LET relativePos == centerY - wheelTop - offset
             index == JsRem(relativePos, wheelHeight) \div segHeight(items)
         IN  JsRem(index, Len(items))

\* second revision: the offset is subtracted and the position wrapped
getIndexAtCentre2(items, offset) ==
    IF Len(items) = 0 THEN NaN
    ELSE LET relativePos == centerY - wheelTop - offset
             normalizedPos ==
                 JsRem(JsRem(relativePos, wheelHeight) + wheelHeight, wheelHeight)
             index == normalizedPos \div segHeight(items)
         IN  JsRem(index, Len(items))

getIndexAtCentre(items, offset) ==
    IF revision = 1 THEN getIndexAtCentre1(items, offset)
    ELSE getIndexAtCentre2(items, offset)

(***************************************************************************)
(* The plan of a spin: the offset that centres the winning segment.        *)
(***************************************************************************)
finalOffset1(items, winner) ==
    winner * segHeight(items) + segHeight(items) \div 2 + wheelTop - centerY

\* a faulty variant of the second revision: the plan of the revision that
\* adds the offset, paired with the geometry that subtracts it
finalOffset2_Added(items, winner) ==
    winner * segHeight(items) + segHeight(items) \div 2 + wheelTop - centerY

finalOffset2(items, winner) ==
    centerY - wheelTop - winner * segHeight(items) - segHeight(items) \div 2

finalOffset(items, winner) ==
    IF revision = 1 THEN finalOffset1(items, winner)
    ELSE finalOffset2(items, winner)

rotations == 3
targetOffset(items, winner) == finalOffset(items, winner) + rotations * wheelHeight

\* ((finalOffset % wheelHeight) + wheelHeight) % wheelHeight
normalizeOffset(offset) ==
    JsRem(JsRem(offset, wheelHeight) + wheelHeight, wheelHeight)

(***************************************************************************)
(* Easing.  The clock advances in units of duration / FramesPerSpin, so    *)
(* progress is a multiple of 1 / FramesPerSpin; progressNum is its         *)
(* numerator.  easeOut = 1 - (1 - progress)^3 is a multiple of             *)
(* 1 / FramesPerSpin^3.  A spin started from an offset left behind by      *)
(* another spin's frame has eased offsets that are not whole: they are     *)
(* rounded down to the unit of length.                                     *)
(***************************************************************************)
\* The clock counts ticks of 1 / FramesPerSpin ms, so that a frame time of
\* duration / FramesPerSpin ms is a whole number of ticks.
duration == 4000
durationTicks == duration * FramesPerSpin
ClockUnit == durationTicks \div FramesPerSpin

progressNum(elapsed) == Min(elapsed \div ClockUnit, FramesPerSpin)

easedOffset(startOffset, distance, p) ==
    startOffset
    + (distance * (Cube(FramesPerSpin) - Cube(FramesPerSpin - p)))
      \div Cube(FramesPerSpin)

(***************************************************************************)
(* Lists.                                                                  *)
(***************************************************************************)
Labels == <<"A", "B", "C", "D", "E">>

\* What the user may have entered when generate is clicked: nothing, one
\* name, or MaxItems distinct names.  The lengths between come about as
\* spins remove winners.
TagInputs ==
    {<<>>} \cup {SubSeq(Labels, 1, n) : n \in {1, MaxItems}}

\* a faulty variant of the swap: array[i] is overwritten and array[j] kept
Swap_Overwrite(array, i, j) ==
    [array EXCEPT ![i] = array[j]]

\* [array[i], array[j]] = [array[j], array[i]]
Swap(array, i, j) ==
    [array EXCEPT ![i] = array[j], ![j] = array[i]]

\* a faulty variant of the draw: the largest index is never drawn
floorRandom_Short(n) == 0..(n - 2)

\* Math.floor(Math.random() * n): every index below n
floorRandom(n) == 0..(n - 1)

\* shuffleArray: every outcome of the loop  for i = length-1 downto 1,
\* j = floor(random * (i + 1)),  swap(array[i], array[j])  (1-based here).
RECURSIVE shuffleFrom(_, _)
shuffleFrom(array, i) ==
    IF i <= 1 THEN {array}
    ELSE UNION {shuffleFrom(Swap(array, i, j + 1), i - 1) :
                    j \in floorRandom(i)}

shuffleArray(array) == shuffleFrom(array, Len(array))

\* array.splice(start, 1): ToIntegerOrInfinity(NaN) is 0; a start at or
\* past the end removes nothing.
splice(array, start) ==
    LET s == IF start = NaN THEN 0 ELSE start
    IN  IF s < Len(array)
        THEN SubSeq(array, 1, s) \o SubSeq(array, s + 2, Len(array))
        ELSE array

\* a faulty variant of the read of the selected value: the element is read
\* after the splice instead of before it
elementAt_AfterSplice(array, index) ==
    LET rest == splice(array, index)
    IN  IF index \in 0..(Len(rest) - 1) THEN rest[index + 1] ELSE Undefined

\* array[index], undefined when there is no such element.
elementAt(array, index) ==
    IF index \in 0..(Len(array) - 1) THEN array[index + 1] ELSE Undefined

(***************************************************************************)
(* localStorage: a function from the keys present to the stored lists.     *)
(* JSON.stringify / JSON.parse of an array of strings returns an equal     *)
(* array, so the list itself stands for its JSON text.                     *)
(***************************************************************************)
SOUND_TYPE == "wheelGenerator_soundType"
CURRENT_ITEMS == "wheelGenerator_currentItems"
ORIGINAL_ITEMS == "wheelGenerator_originalItems"

setItem(store, key, value) ==
    [k \in DOMAIN store \cup {key} |-> IF k = key THEN value ELSE store[k]]

removeItem(store, key) ==
    [k \in DOMAIN store \ {key} |-> store[k]]

saveWheelState(store, items, original) ==
    LET s1 == IF Len(items) > 0 THEN setItem(store, CURRENT_ITEMS, items)
              ELSE store
    IN  IF Len(original) > 0 THEN setItem(s1, ORIGINAL_ITEMS, original)
        ELSE s1

clearWheelState(store) ==
    removeItem(removeItem(store, CURRENT_ITEMS), ORIGINAL_ITEMS)

(***************************************************************************)
(* The page after DOMContentLoaded on a first visit: nothing stored.       *)
(***************************************************************************)
NoStore == [k \in {} |-> <<>>]

(***************************************************************************)
(* The tick sound.  sounds is the list both functions draw from; the       *)
(* select offers these and the two modes random and cycle.                 *)
(***************************************************************************)
soundVars == <<currentSoundType, currentSpinSoundType, cycleIndex>>

sounds == <<"classic", "beep", "click", "pop", "blip", "thud", "bass", "drum">>

SoundOptions == {sounds[i] : i \in DOMAIN sounds} \cup {"random", "cycle"}

\* setSpinSoundType(): the sound of the spin and the cycle position after
\* the call, one record for each outcome of Math.random()
setSpinSoundType(soundType, index) ==
    IF soundType = "random"
    THEN {[sound |-> sounds[i], cycleIndex |-> index] : i \in DOMAIN sounds}
    ELSE IF soundType = "cycle"
    THEN {[sound |-> sounds[(index % Len(sounds)) + 1],
           cycleIndex |-> index + 1]}
    ELSE {[sound |-> soundType, cycleIndex |-> index]}

\* onSoundChange(): the same choice for the preview, the cycle position
\* stays
previewSoundType(soundType, index) ==
    IF soundType = "random"
    THEN {sounds[i] : i \in DOMAIN sounds}
    ELSE IF soundType = "cycle"
    THEN {sounds[(index % Len(sounds)) + 1]}
    ELSE {soundType}

Init ==
    /\ revision = 2
    /\ currentItems = <<>>
    /\ originalItems = <<>>
    /\ currentOffset = 0
    /\ isSpinning = FALSE
    /\ selectedIndex = Null
    /\ lastTickIndex = -1
    /\ localStorage = NoStore
    /\ rafQueue = <<>>
    /\ frameQueue = <<>>
    /\ clock = 0
    /\ spinCount = 0
    /\ settled = <<>>
    /\ epoch = [list |-> <<>>, base |-> 0, clean |-> FALSE]
    /\ lastEvent = [op |-> "load"]
    /\ currentSoundType = "classic"
    /\ currentSpinSoundType = "classic"
    /\ cycleIndex = 0

\* A handler runs between frames or before the callbacks of a frame, never
\* between two callbacks of the same frame.
Idle == frameQueue = <<>>

\* variant: the callback is queued twice
requestAnimationFrame_Twice(queue, callback) ==
    Append(Append(queue, callback), callback)

\* requestAnimationFrame(animate): the callback joins those of the next frame
requestAnimationFrame(queue, callback) == Append(queue, callback)

\* history: generate, reset or load group ran while these closures were
\* pending
interrupt(queue) ==
    [i \in DOMAIN queue |-> [queue[i] EXCEPT !.interrupted = TRUE]]

(***************************************************************************)
(* generateBtn click handler.                                              *)
(***************************************************************************)
\* variant: the handler accepts an empty list of tags
generateGuard_Always(items) == TRUE

\* the handler goes on past the alert: items.length === 0 is false
generateGuard(items) == Len(items) # 0

Generate ==
    /\ Idle
    /\ \E input \in TagInputs :
         IF ~generateGuard(input)
         THEN /\ lastEvent' = [op |-> "generateRejected", input |-> input]
              /\ UNCHANGED <<soundVars, revision, currentItems, originalItems,
                             currentOffset, isSpinning, selectedIndex,
                             lastTickIndex, localStorage, rafQueue,
                             frameQueue, clock, spinCount, settled, epoch>>
         ELSE \E items \in shuffleArray(input) :
                /\ currentItems' = items
                /\ originalItems' = items
                /\ currentOffset' = 0
                /\ selectedIndex' = Null
                /\ isSpinning' = FALSE
                /\ lastTickIndex' = -1
                /\ localStorage' = saveWheelState(localStorage, items, items)
                /\ rafQueue' = interrupt(rafQueue)
                /\ epoch' = [list |-> items, base |-> spinCount,
                             clean |-> TRUE]
                /\ lastEvent' = [op |-> "generate", input |-> input]
                /\ UNCHANGED <<soundVars, revision, frameQueue, clock, spinCount,
                               settled>>

(***************************************************************************)
(* spinWheel, up to and including requestAnimationFrame(animate).          *)
(* The closure keeps the constants of the spin; id, planLength, winner and *)
(* interrupted are history fields: the number of the spin, the length of   *)
(* the list and the winning index when it was accepted, and whether        *)
(* generate, reset or load group ran since.  prevIndex and surplus are     *)
(* history fields too: the index at the centre on the previous frame of    *)
(* this loop (-1 before its first frame), and the number of ticks its      *)
(* frames fired minus the number of its frames whose index differed from   *)
(* prevIndex.                                                              *)
(***************************************************************************)
\* a faulty variant of the guard: the spinning flag is not consulted
spinGuard_EmptyOnly == Len(currentItems) = 0

\* if (isSpinning || currentItems.length === 0) return;
spinGuard == isSpinning \/ Len(currentItems) = 0

SpinWheel ==
    /\ Idle
    /\ IF spinGuard
       THEN /\ lastEvent' = [op |-> "spinRejected"]
            /\ UNCHANGED <<soundVars, revision, currentItems, originalItems,
                           currentOffset, isSpinning, selectedIndex,
                           lastTickIndex, localStorage, rafQueue,
                           frameQueue, clock, spinCount, settled, epoch>>
       ELSE /\ spinCount < MaxSpins
            /\ Len(rafQueue) < MaxLoops
            /\ \E winner \in 0..(Len(currentItems) - 1) :
                 /\ selectedIndex' = winner
                 /\ rafQueue' = requestAnimationFrame(rafQueue,
                        [id |-> spinCount + 1,
                         finalOffset |-> finalOffset(currentItems, winner),
                         startOffset |-> currentOffset,
                         distance |-> targetOffset(currentItems, winner)
                                      - currentOffset,
                         startTime |-> clock,
                         planLength |-> Len(currentItems),
                         winner |-> winner,
                         interrupted |-> FALSE,
                         prevIndex |-> -1,
                         surplus |-> 0])
            /\ isSpinning' = TRUE
            /\ spinCount' = spinCount + 1
            /\ lastEvent' = [op |-> "spin"]
            /\ \E choice \in setSpinSoundType(currentSoundType, cycleIndex) :
                 /\ currentSpinSoundType' = choice.sound
                 /\ cycleIndex' = choice.cycleIndex
            /\ UNCHANGED <<currentSoundType, revision, currentItems,
                           originalItems,
                           currentOffset, lastTickIndex, localStorage,
                           frameQueue, clock, settled, epoch>>

(***************************************************************************)
(* resetBtn click handler.                                                 *)
(***************************************************************************)
\* a faulty variant of the guard: reset never returns early
resetGuard_Never == FALSE

\* a faulty variant of the handler: the list is not restored
Reset_KeepsItems ==
    /\ Idle
    /\ Len(originalItems) > 0
    /\ currentOffset' = 0
    /\ selectedIndex' = Null
    /\ isSpinning' = FALSE
    /\ localStorage' =
           saveWheelState(localStorage, originalItems, originalItems)
    /\ rafQueue' = interrupt(rafQueue)
    /\ epoch' = [epoch EXCEPT !.clean = FALSE]
    /\ lastEvent' = [op |-> "reset"]
    /\ UNCHANGED <<soundVars, revision, currentItems, originalItems, lastTickIndex,
                   frameQueue, clock, spinCount, settled>>

\* if (originalItems.length === 0) return;
resetGuard == Len(originalItems) = 0

Reset ==
    /\ Idle
    /\ IF resetGuard
       THEN /\ lastEvent' = [op |-> "resetRejected"]
            /\ UNCHANGED <<soundVars, revision, currentItems, originalItems,
                           currentOffset, isSpinning, selectedIndex,
                           lastTickIndex, localStorage, rafQueue,
                           frameQueue, clock, spinCount, settled, epoch>>
       ELSE /\ currentItems' = originalItems
            /\ currentOffset' = 0
            /\ selectedIndex' = Null
            /\ isSpinning' = FALSE
            /\ localStorage' =
                   saveWheelState(localStorage, originalItems, originalItems)
            /\ rafQueue' = interrupt(rafQueue)
            /\ epoch' = [epoch EXCEPT !.clean = FALSE]
            /\ lastEvent' = [op |-> "reset"]
            /\ UNCHANGED <<soundVars, revision, originalItems, lastTickIndex,
                           frameQueue, clock, spinCount, settled>>

(***************************************************************************)
(* loadGroupBtn click handler, for a selected group that loadGroup finds.  *)
(* It replaces the tags, empties both lists, clears the stored wheel state *)
(* and calls generateWheel(), a function the script does not define: the   *)
(* call throws a ReferenceError and the handler ends there.  The branches  *)
(* for no selection and for a group not found only show an alert.          *)
(***************************************************************************)
\* the name lists loadGroup can return: saveGroup stores no empty group
SavedGroups == TagInputs \ {<<>>}

LoadGroup ==
    /\ Idle
    /\ \E groupNames \in SavedGroups :
           lastEvent' = [op |-> "loadGroup", group |-> groupNames]
    /\ currentItems' = <<>>
    /\ originalItems' = <<>>
    /\ localStorage' = clearWheelState(localStorage)
    /\ rafQueue' = interrupt(rafQueue)
    /\ epoch' = [epoch EXCEPT !.list = <<>>, !.clean = FALSE]
    /\ UNCHANGED <<soundVars, revision, currentOffset, isSpinning, selectedIndex,
                   lastTickIndex, frameQueue, clock, spinCount, settled>>

(***************************************************************************)
(* The browser starts a frame: the clock has advanced, and the callbacks   *)
(* registered so far are the ones this frame calls, in order, with the     *)
(* frame's timestamp.  Callbacks registered meanwhile wait for the next.   *)
(***************************************************************************)
\* a faulty variant of the frame: the timestamp handed to the callbacks
\* does not advance
BeginFrame_ClockStopped ==
    /\ Idle
    /\ rafQueue # <<>>
    /\ frameQueue' = rafQueue
    /\ rafQueue' = <<>>
    /\ lastEvent' = [op |-> "frame"]
    /\ UNCHANGED <<soundVars, revision, currentItems, originalItems, currentOffset,
                   isSpinning, selectedIndex, lastTickIndex, localStorage,
                   clock, spinCount, settled, epoch>>

BeginFrame ==
    /\ Idle
    /\ rafQueue # <<>>
    /\ \E dt \in 1..MaxDt : clock' = clock + dt * ClockUnit
    /\ frameQueue' = rafQueue
    /\ rafQueue' = <<>>
    /\ lastEvent' = [op |-> "frame"]
    /\ UNCHANGED <<soundVars, revision, currentItems, originalItems, currentOffset,
                   isSpinning, selectedIndex, lastTickIndex, localStorage,
                   spinCount, settled, epoch>>

(***************************************************************************)
(* animate(now), for the closure at the head of the frame's callbacks.     *)
(***************************************************************************)
\* currentIndex !== lastTickIndex && isSpinning   (NaN !== NaN is true)
tickFires(currentIndex) ==
    (currentIndex # lastTickIndex \/ currentIndex = NaN) /\ isSpinning

\* history: the loop after a frame that saw currentIndex at the centre
framed(loop, currentIndex) ==
    [loop EXCEPT !.prevIndex = currentIndex,
                 !.surplus = loop.surplus
                     + (IF tickFires(currentIndex) THEN 1 ELSE 0)
                     - (IF currentIndex # loop.prevIndex THEN 1 ELSE 0)]

\* a faulty variant of the test: the first frame already settles the spin
inProgress_Never(p) == FALSE

\* if (progress < 1)
inProgress(p) == p < FramesPerSpin

\* the branch  progress < 1: one more frame is asked for
AnimateStep ==
    /\ frameQueue # <<>>
    /\ LET loop == Head(frameQueue)
           p == progressNum(clock - loop.startTime)
           offset == easedOffset(loop.startOffset, loop.distance, p)
           currentIndex == getIndexAtCentre(currentItems, offset)
       IN  /\ inProgress(p)
           /\ currentOffset' = offset
           /\ lastTickIndex' = IF tickFires(currentIndex) THEN currentIndex
                                ELSE lastTickIndex
           /\ rafQueue' = requestAnimationFrame(rafQueue,
                                                framed(loop, currentIndex))
           /\ frameQueue' = Tail(frameQueue)
           /\ lastEvent' = [op |-> "animate", id |-> loop.id,
                             index |-> currentIndex,
                             prev |-> loop.prevIndex,
                             ticked |-> tickFires(currentIndex),
                             interrupted |-> loop.interrupted,
                             items |-> currentItems]
           /\ UNCHANGED <<soundVars, revision, currentItems, originalItems, isSpinning,
                          selectedIndex, localStorage, clock, spinCount,
                          settled, epoch>>

\* the else branch: the spin settles.  The frame first moves the wheel to
\* the target offset and makes the tick test like every other frame.  The
\* event records, as history, what the overlay announces, the list before
\* the removal, and the closure's winner, interruption flag and elapsed
\* time.
AnimateSettle ==
    /\ frameQueue # <<>>
    /\ LET loop == Head(frameQueue)
           p == progressNum(clock - loop.startTime)
           offset == easedOffset(loop.startOffset, loop.distance, p)
           currentIndex == getIndexAtCentre(currentItems, offset)
           normalized == normalizeOffset(loop.finalOffset)
           idx == getIndexAtCentre(currentItems, normalized)
           selectedValue == elementAt(currentItems, idx)
           remaining == splice(currentItems, idx)
       IN  /\ ~inProgress(p)
           /\ isSpinning' = FALSE
           /\ lastTickIndex' = -1
           /\ selectedIndex' = idx
           /\ currentItems' = remaining
           /\ currentOffset' = 0
           /\ localStorage' =
                  saveWheelState(IF Len(remaining) > 0 THEN localStorage
                                 ELSE clearWheelState(localStorage),
                                 remaining, originalItems)
           /\ settled' = Append(settled, loop.id)
           /\ frameQueue' = Tail(frameQueue)
           /\ clock' = IF rafQueue = <<>> /\ Tail(frameQueue) = <<>> THEN 0
                       ELSE clock
           /\ lastEvent' = [op |-> "settle", id |-> loop.id,
                             announced |-> selectedValue,
                             before |-> currentItems,
                             winner |-> loop.winner,
                             interrupted |-> loop.interrupted,
                             elapsed |-> clock - loop.startTime,
                             index |-> currentIndex,
                             prev |-> loop.prevIndex,
                             ticked |-> tickFires(currentIndex),
                             surplus |-> framed(loop, currentIndex).surplus,
                             normalized |-> normalized]
           /\ UNCHANGED <<soundVars, revision, originalItems, rafQueue, spinCount,
                          epoch>>

Next ==
    \/ Generate
    \/ SpinWheel
    \/ Reset
    \/ LoadGroup
    \/ BeginFrame
    \/ AnimateStep
    \/ AnimateSettle

Spec == Init /\ [][Next]_vars

TypeOK ==
    /\ revision \in {1, 2}
    /\ isSpinning \in BOOLEAN
    /\ Len(currentItems) <= MaxItems
    /\ selectedIndex \in {Null, NaN} \cup (0..(MaxItems - 1))
    /\ spinCount \in 0..MaxSpins
    /\ Len(rafQueue) + Len(frameQueue) <= MaxSpins

(***************************************************************************)
(* The geometry on its own, for both revisions and for offsets the         *)
(* animation of this model does not produce: negative ones, offsets many   *)
(* wheel heights away, offsets on and next to segment boundaries.          *)
(* GeomPlan is the planning part of spinWheel, GeomProbe the call of       *)
(* getIndexAtCentre that animate makes, GeomTurn a full rotation.          *)
(***************************************************************************)
GeomStep == wheelHeight \div (2 * LcmUpTo(MaxItems))

GeomOffsets ==
    {k * GeomStep + e :
        k \in (0 - MaxTurns * 2 * LcmUpTo(MaxItems))
               ..(MaxTurns * 2 * LcmUpTo(MaxItems)),
        e \in {-1, 0, 1}}

GeomInit ==
    /\ revision \in {1, 2}
    /\ currentItems \in {SubSeq(Labels, 1, n) : n \in 1..MaxItems}
    /\ originalItems = currentItems
    /\ currentOffset \in GeomOffsets
    /\ isSpinning = FALSE
    /\ selectedIndex = Null
    /\ lastTickIndex = -1
    /\ localStorage = NoStore
    /\ rafQueue = <<>>
    /\ frameQueue = <<>>
    /\ clock = 0
    /\ spinCount = 0
    /\ settled = <<>>
    /\ epoch = [list |-> <<>>, base |-> 0, clean |-> FALSE]
    /\ lastEvent = [op |-> "load"]
    /\ currentSoundType = "classic"
    /\ currentSpinSoundType = "classic"
    /\ cycleIndex = 0

GeomPlan ==
    /\ \E winner \in 0..(Len(currentItems) - 1) :
         /\ selectedIndex' = winner
         /\ currentOffset' = finalOffset(currentItems, winner)
    /\ lastTickIndex' = -1
    /\ lastEvent' = [op |-> "plan"]
    /\ UNCHANGED <<soundVars, revision, currentItems, originalItems, isSpinning,
                   localStorage, rafQueue, frameQueue, clock, spinCount,
                   settled, epoch>>

GeomTurn ==
    /\ \E k \in {-1, 1} :
         /\ currentOffset + k * wheelHeight >= 0 - MaxTurns * wheelHeight
         /\ currentOffset + k * wheelHeight <= MaxTurns * wheelHeight
         /\ currentOffset' = currentOffset + k * wheelHeight
    /\ lastEvent' = [op |-> "turn", after |-> lastEvent.op]
    /\ UNCHANGED <<soundVars, revision, currentItems, originalItems, isSpinning,
                   selectedIndex, lastTickIndex, localStorage, rafQueue,
                   frameQueue, clock, spinCount, settled, epoch>>

GeomProbe ==
    /\ lastTickIndex' = getIndexAtCentre(currentItems, currentOffset)
    /\ lastEvent' = [op |-> "probe", after |-> lastEvent.op]
    /\ UNCHANGED <<soundVars, revision, currentItems, originalItems, currentOffset,
                   isSpinning, selectedIndex, localStorage, rafQueue,
                   frameQueue, clock, spinCount, settled, epoch>>

GeomNext ==
    \/ GeomPlan
    \/ GeomTurn
    \/ GeomProbe

GeomSpec == GeomInit /\ [][GeomNext]_vars

(***************************************************************************)
(* C1.  For every item count n > 0 and every winning index w in [0, n),    *)
(* getIndexAtCentre at the finalOffset that spinWheel computes for w       *)
(* returns w, in the revision that adds the offset and in the one that     *)
(* subtracts it.                                                           *)
(***************************************************************************)
C1_SettleDeterminism ==
    (lastEvent.op = "probe" /\ lastEvent.after = "plan")
        => lastTickIndex = selectedIndex

C1_Witness ==
    /\ lastEvent.op = "probe"
    /\ lastEvent.after = "plan"
    /\ revision = 1
    /\ Len(currentItems) = MaxItems
    /\ selectedIndex = MaxItems - 1
    /\ lastTickIndex = selectedIndex

(***************************************************************************)
(* C2.  For every item count n > 0 and every offset, negative ones and     *)
(* ones several wheel heights away included, getIndexAtCentre returns an   *)
(* integer index in [0, n).                                                *)
(***************************************************************************)
C2_IndexInRange ==
    lastEvent.op = "probe" => lastTickIndex \in 0..(Len(currentItems) - 1)

C2_Witness ==
    /\ lastEvent.op = "probe"
    /\ currentOffset < 0 - 2 * wheelHeight
    /\ Len(currentItems) > 1
    /\ lastTickIndex = Len(currentItems) - 1

(***************************************************************************)
(* C3.  A spin request made while the spinning flag is set, or while the   *)
(* item list is empty, changes nothing: items, original items, offset,     *)
(* selectedIndex, the spinning flag, the tick index and the scheduled      *)
(* animation callbacks are all left as they were.                          *)
(***************************************************************************)
C3_RejectedSpinNoOp ==
    [][(/\ lastEvent'.op \in {"spin", "spinRejected"}
        /\ (isSpinning \/ Len(currentItems) = 0))
          => UNCHANGED <<currentItems, originalItems, currentOffset,
                         selectedIndex, isSpinning, lastTickIndex,
                         rafQueue, frameQueue, localStorage>>]_vars

C3_Witness ==
    /\ lastEvent.op = "spinRejected"
    /\ isSpinning
    /\ rafQueue # <<>>
    /\ Len(currentItems) > 0

(***************************************************************************)
(* C4.  In every reachable state at most one spin animation loop is        *)
(* pending: no spin is accepted while the animation of an earlier spin has *)
(* not reached its completion frame.                                       *)
(***************************************************************************)
C4_AtMostOneLoop == Len(rafQueue) + Len(frameQueue) <= 1

(***************************************************************************)
(* C5.  Every accepted spin announces its result at most once and is       *)
(* either announced or still animating; the announcement is made on the    *)
(* frame where progress has reached 1 and on no earlier frame; a rejected  *)
(* spin, not being counted in spinCount, has no announcement.              *)
(***************************************************************************)
PendingIds ==
    {rafQueue[i].id : i \in DOMAIN rafQueue}
        \cup {frameQueue[i].id : i \in DOMAIN frameQueue}

SettledIds == {settled[i] : i \in DOMAIN settled}

C5_AnnouncedOnce ==
    /\ \A i, j \in DOMAIN settled : i # j => settled[i] # settled[j]
    /\ SettledIds \cap PendingIds = {}
    /\ SettledIds \cup PendingIds = 1..spinCount
    /\ \A i \in DOMAIN rafQueue : clock - rafQueue[i].startTime < durationTicks
    /\ lastEvent.op = "settle" =>
           /\ lastEvent.elapsed >= durationTicks
           /\ settled[Len(settled)] = lastEvent.id
    /\ lastEvent.op = "spinRejected" => "announced" \notin DOMAIN lastEvent

C5_Witness ==
    /\ lastEvent.op = "settle"
    /\ lastEvent.elapsed >= durationTicks
    /\ lastEvent.announced \in {Labels[i] : i \in 1..MaxItems}
    /\ Len(settled) = 2
    /\ spinCount = 2

removeAt(array, index) ==
    SubSeq(array, 1, index) \o SubSeq(array, index + 2, Len(array))

C7_RemovesChosenWinner ==
    (lastEvent.op = "settle" /\ ~lastEvent.interrupted) =>
        /\ lastEvent.winner \in 0..(Len(lastEvent.before) - 1)
        /\ currentItems = removeAt(lastEvent.before, lastEvent.winner)
        /\ Len(currentItems) = Len(lastEvent.before) - 1

(***************************************************************************)
(* C8.  Starting from a freshly generated wheel of N items, N accepted     *)
(* spins that each run to completion leave items empty; every one of them  *)
(* removes one entry of the generated list, no entry twice; and any later  *)
(* spin request is rejected.                                               *)
(***************************************************************************)
C8_SpinsExhaustWheel ==
    epoch.clean =>
        /\ (lastEvent.op = "settle" /\ lastEvent.id > epoch.base) =>
               /\ \E i \in DOMAIN epoch.list :
                      epoch.list[i] = lastEvent.announced
               /\ \A i \in DOMAIN currentItems :
                      currentItems[i] # lastEvent.announced
               /\ Len(currentItems) = Len(lastEvent.before) - 1
        /\ (/\ spinCount - epoch.base = Len(epoch.list)
            /\ (epoch.base + 1)..spinCount \subseteq SettledIds)
               => (currentItems = <<>> /\ spinGuard)

(***************************************************************************)
(* C9.  The retained original list is the list of the most recent generate *)
(* (none after a group was loaded) whatever spins and resets followed, and *)
(* reset sets items to exactly that list, in the same order, sets the      *)
(* offset to 0 and clears the spinning flag.                               *)
(***************************************************************************)
C9_ResetRestores ==
    /\ originalItems = epoch.list
    /\ lastEvent.op = "reset" =>
           /\ currentItems = epoch.list
           /\ currentOffset = 0
           /\ ~isSpinning

C9_Witness ==
    /\ lastEvent.op = "reset"
    /\ Len(settled) >= 2
    /\ PendingIds = {}
    /\ spinCount - epoch.base >= 2
    /\ Len(currentItems) = MaxItems
    /\ currentItems = epoch.list

(***************************************************************************)
(* C10.  reset invoked while the original list is empty changes no state   *)
(* at all.                                                                 *)
(***************************************************************************)
C10_ResetWithoutOriginalNoOp ==
    [][(/\ lastEvent'.op \in {"reset", "resetRejected"}
        /\ Len(originalItems) = 0)
          => UNCHANGED <<soundVars, revision, currentItems, originalItems,
                         currentOffset, isSpinning, selectedIndex,
                         lastTickIndex, localStorage, rafQueue, frameQueue,
                         clock>>]_vars

C10_Witness ==
    /\ lastEvent.op = "resetRejected"
    /\ isSpinning
    /\ rafQueue # <<>>

(***************************************************************************)
(* C11.  generate with a non-empty input sets items to a permutation of    *)
(* the input (the same labels with the same multiplicities), retains an    *)
(* equal copy of the shuffled list as the original, sets the offset to 0,  *)
(* selectedIndex to none, the tick index to -1 and the spinning flag to    *)
(* false.  The copy is independent: a settle that removes an item from     *)
(* items leaves the original longer than items.                            *)
(***************************************************************************)
Occurrences(array, label) ==
    Cardinality({i \in DOMAIN array : array[i] = label})

IsPermutation(a, b) ==
    /\ Len(a) = Len(b)
    /\ \A i \in DOMAIN b : Occurrences(a, b[i]) = Occurrences(b, b[i])

C11_GenerateShuffles ==
    /\ lastEvent.op = "generate" =>
           /\ Len(lastEvent.input) > 0
           /\ IsPermutation(currentItems, lastEvent.input)
           /\ originalItems = currentItems
           /\ currentOffset = 0
           /\ selectedIndex = Null
           /\ lastTickIndex = -1
           /\ ~isSpinning
    /\ (lastEvent.op = "settle" /\ lastEvent.before # <<>>) =>
           Len(currentItems) < Len(originalItems)

C11_Witness ==
    /\ lastEvent.op = "generate"
    /\ Len(lastEvent.input) = MaxItems
    /\ currentItems # lastEvent.input
    /\ rafQueue # <<>>
    /\ spinCount > 0

(***************************************************************************)
(* C12.  During a spin's animation, a frame on which the segment index at  *)
(* the centreline is the one of the spin's previous frame fires no tick.   *)
(* (A frame fires at most one tick by the shape of the code.)  Stated for  *)
(* the frames of a spin that no generate, reset or load group interrupted. *)
(***************************************************************************)
C12_NoTickWithoutChange ==
    (/\ lastEvent.op \in {"animate", "settle"}
     /\ ~lastEvent.interrupted
     /\ lastEvent.prev # -1
     /\ lastEvent.index = lastEvent.prev)
        => ~lastEvent.ticked

(***************************************************************************)
(* C13.  Over the whole animation of a spin that no generate, reset or     *)
(* load group interrupted, the number of ticks its frames fired equals the *)
(* number of its frames whose index at the centreline differs from the     *)
(* index of its previous frame (the first frame differing from no index).  *)
(***************************************************************************)
C13_TicksEqualChanges ==
    (lastEvent.op = "settle" /\ ~lastEvent.interrupted)
        => lastEvent.surplus = 0

(***************************************************************************)
(* C14.  In every reachable state, if the spinning flag is set then the    *)
(* item list is non-empty.                                                 *)
(***************************************************************************)
C14_SpinningNonEmpty == isSpinning => Len(currentItems) > 0

(***************************************************************************)
(* C15.  getIndexAtCentre is never called with an empty item list.  Stated *)
(* for the calls animate makes on the frames of a spin that no generate,   *)
(* reset or load group interrupted: the index it gets is a number, never   *)
(* the NaN of an empty list.                                               *)
(***************************************************************************)
C15_NeverCalledOnEmptyList ==
    (lastEvent.op \in {"animate", "settle"} /\ ~lastEvent.interrupted)
        => lastEvent.index # NaN

(***************************************************************************)
(* Frames keep coming: the browser starts a frame whenever a callback is   *)
(* registered, and calls every callback of the frame it started.  The      *)
(* behaviours examined for progress have at most LiveSpins accepted spins, *)
(* and of the outcomes of the shuffle they take the one that leaves the    *)
(* entered order: which label stands where has no part in the progress of  *)
(* a loop.                                                                 *)
(***************************************************************************)
LiveSpins == 2

LiveNext ==
    /\ Next
    /\ spinCount' <= LiveSpins
    /\ lastEvent'.op = "generate" => currentItems' = lastEvent'.input

FairSpec ==
    /\ Init
    /\ [][LiveNext]_vars
    /\ WF_vars(BeginFrame)
    /\ WF_vars(AnimateStep)
    /\ WF_vars(AnimateSettle)

(***************************************************************************)
(* C16.  Once a spin is accepted, if frame callbacks keep being delivered  *)
(* and the clock keeps advancing, its animation eventually reaches the     *)
(* frame with progress 1; after that frame the spinning flag is false and  *)
(* no further frame is scheduled for that spin.                            *)
(***************************************************************************)
C16_SpinCompletes ==
    \A id \in 1..LiveSpins :
        (id \in PendingIds) ~>
            (/\ lastEvent.op = "settle"
             /\ lastEvent.id = id
             /\ lastEvent.elapsed >= durationTicks
             /\ ~isSpinning
             /\ id \notin PendingIds)

C16_Witness ==
    /\ lastEvent.op = "settle"
    /\ lastEvent.id = LiveSpins
    /\ lastEvent.interrupted
    /\ ~isSpinning
    /\ PendingIds = {}

(***************************************************************************)
(* C17.  On the completion frame of a spin that no generate or reset       *)
(* interrupted, the normalised final offset lies in [0, wheelHeight) and   *)
(* the index recomputed by getIndexAtCentre at that offset equals the      *)
(* winning index picked when the spin started.                             *)
(***************************************************************************)
C17_SettleIndexIsPlanned ==
    (lastEvent.op = "settle" /\ ~lastEvent.interrupted) =>
        /\ lastEvent.normalized \in 0..(wheelHeight - 1)
        /\ selectedIndex = lastEvent.winner

(***************************************************************************)
(* C18.  After a reset performed while a spin's loop is running, the final *)
(* removal of that loop does not modify the list that reset restored.      *)
(* The most recent of generate, reset and load group was an accepted reset *)
(* exactly when the epoch is not clean and an original list is retained;   *)
(* a loop marked interrupted was then running when reset was clicked.      *)
(***************************************************************************)
LastWasReset == ~epoch.clean /\ originalItems # <<>>

C18_StaleLoopLeavesRestoredList ==
    (lastEvent.op = "settle" /\ lastEvent.interrupted /\ LastWasReset)
        => currentItems = lastEvent.before

(***************************************************************************)
(* C19.  After a generate or a reset, items stays equal to the retained    *)
(* original list until the completion frame of a spin accepted after that  *)
(* generate or reset: a settle that removes an item from a list still      *)
(* equal to the original belongs to a spin that no generate or reset       *)
(* interrupted.                                                            *)
(***************************************************************************)
C19_FreshListKeptUntilOwnSettle ==
    (/\ lastEvent.op = "settle"
     /\ lastEvent.before = originalItems
     /\ lastEvent.before # <<>>)
        => ~lastEvent.interrupted

(***************************************************************************)
(* C20.  In every reachable state in which the spinning flag is false, the *)
(* current offset is 0, so every accepted spin starts from offset 0.       *)
(***************************************************************************)
C20_IdleOffsetZero == ~isSpinning => currentOffset = 0

(***************************************************************************)
(* C21.  For every item count n > 0, every offset and every integer k,     *)
(* getIndexAtCentre at offset + k * wheelHeight equals getIndexAtCentre at *)
(* offset; hence at targetOffset = finalOffset + rotations * wheelHeight   *)
(* the winning index is at the centreline.                                 *)
(***************************************************************************)
C21_IndexPeriodic ==
    /\ lastEvent.op = "probe" =>
           \A k \in (0 - MaxTurns)..MaxTurns :
               getIndexAtCentre(currentItems,
                                currentOffset + k * wheelHeight)
                   = lastTickIndex
    /\ lastEvent.op = "plan" =>
           getIndexAtCentre(currentItems,
                            targetOffset(currentItems, selectedIndex))
               = selectedIndex

C21_Witness ==
    /\ lastEvent.op = "probe"
    /\ lastEvent.after = "turn"
    /\ revision = 1
    /\ currentOffset < 0 - wheelHeight
    /\ Len(currentItems) = MaxItems
    /\ lastTickIndex = 1
    /\ getIndexAtCentre(currentItems, currentOffset + MaxTurns * wheelHeight)
           = 1

(***************************************************************************)
(* C22.  For frame timestamps that do not decrease and are not earlier     *)
(* than the spin's start time, the animated offset equals the start offset *)
(* at elapsed 0, equals targetOffset on every frame with elapsed >=        *)
(* duration, and never decreases from one frame to the next, staying       *)
(* between the start offset and targetOffset.  Stated for the trajectory   *)
(* of every loop that is scheduled, over all the progress values a frame   *)
(* can see.                                                                *)
(***************************************************************************)
PendingLoops ==
    {rafQueue[i] : i \in DOMAIN rafQueue}
        \cup {frameQueue[i] : i \in DOMAIN frameQueue}

offsetAt(loop, elapsed) ==
    easedOffset(loop.startOffset, loop.distance, progressNum(elapsed))

TrajectoryRises(loop) ==
    /\ offsetAt(loop, 0) = loop.startOffset
    /\ \A over \in 0..MaxDt :
           offsetAt(loop, durationTicks + over * ClockUnit)
               = loop.startOffset + loop.distance
    /\ \A p \in 0..(FramesPerSpin - 1) :
           /\ offsetAt(loop, p * ClockUnit) <= offsetAt(loop, (p + 1) * ClockUnit)
           /\ offsetAt(loop, p * ClockUnit) >= loop.startOffset
           /\ offsetAt(loop, p * ClockUnit) <= loop.startOffset + loop.distance

C22_OffsetNeverDecreases == \A loop \in PendingLoops : TrajectoryRises(loop)

(***************************************************************************)
(* drawWheelWithOffset: the wrapped start sy of the stripe of segment i.   *)
(* The stripe is one rectangle from sy to sy + segHeight; it is not split  *)
(* when it reaches past the lower edge of the wheel.                       *)
(***************************************************************************)
\* first revision (and third): rawStart = y + i * segHeight - offset
stripeStart1(items, i, offset) ==
    LET rawStart == wheelTop + i * segHeight(items) - offset
    IN  JsRem(JsRem(rawStart - wheelTop, wheelHeight) + wheelHeight,
              wheelHeight) + wheelTop

\* second revision: rawStart = y + i * segHeight + offset
stripeStart2(items, i, offset) ==
    LET rawStart == wheelTop + i * segHeight(items) + offset
    IN  JsRem(JsRem(rawStart - wheelTop, wheelHeight) + wheelHeight,
              wheelHeight) + wheelTop

stripeStart(items, i, offset) ==
    IF revision = 1 THEN stripeStart1(items, i, offset)
    ELSE stripeStart2(items, i, offset)

\* the rectangle filled for segment i lies across the centre line
coversCentre(items, i, offset) ==
    /\ stripeStart(items, i, offset) <= centerY
    /\ centerY < stripeStart(items, i, offset) + segHeight(items)

(***************************************************************************)
(* C23.  In each revision, for every item count n > 0 and every offset,    *)
(* the index returned by getIndexAtCentre is the index of the segment      *)
(* whose stripe, as positioned by drawWheelWithOffset at the same offset,  *)
(* covers the centreline, and of no other.                                 *)
(***************************************************************************)
C23_IndexIsStripeAtCentre ==
    lastEvent.op = "probe" =>
        \A i \in 0..(Len(currentItems) - 1) :
            coversCentre(currentItems, i, currentOffset)
                <=> (i = lastTickIndex)

(***************************************************************************)
(* C24.  An animation frame with progress < 1 changes only the current     *)
(* offset and the recorded tick index: the items, the original list,       *)
(* selectedIndex, the spinning flag and the stored state are unchanged by  *)
(* it, and exactly one next frame is scheduled, for the same loop.         *)
(***************************************************************************)
C24_FrameEffect ==
    [][(/\ frameQueue # <<>>
        /\ frameQueue' = Tail(frameQueue)
        /\ progressNum(clock - Head(frameQueue).startTime) < FramesPerSpin)
       => /\ currentItems' = currentItems
          /\ originalItems' = originalItems
          /\ selectedIndex' = selectedIndex
          /\ isSpinning' = isSpinning
          /\ localStorage' = localStorage
          /\ Len(rafQueue') = Len(rafQueue) + 1
          /\ SubSeq(rafQueue', 1, Len(rafQueue)) = rafQueue
          /\ rafQueue'[Len(rafQueue')].id = Head(frameQueue).id
          /\ currentOffset' = offsetAt(Head(frameQueue),
                                       clock - Head(frameQueue).startTime)]_vars

C24_Witness ==
    /\ lastEvent.op = "animate"
    /\ ~lastEvent.interrupted
    /\ lastEvent.ticked
    /\ isSpinning
    /\ Len(rafQueue) = 1 /\ frameQueue = <<>>
    /\ rafQueue[1].id = lastEvent.id
    /\ currentOffset > 0
    /\ lastTickIndex = lastEvent.index

(***************************************************************************)
(* C25.  In every reachable state selectedIndex is either none or a valid  *)
(* index into the current item list, 0 <= selectedIndex < items.length,    *)
(* including after a spin has settled and its winner has been removed.     *)
(***************************************************************************)
C25_SelectedIndexValid ==
    \/ selectedIndex = Null
    \/ selectedIndex \in 0..(Len(currentItems) - 1)

(***************************************************************************)
(* C26.  generate with an empty input list is rejected with an alert and   *)
(* changes no wheel state: items, the original list, offset,               *)
(* selectedIndex, the spinning flag, the tick index, the pending frames    *)
(* and the persisted wheel state are unchanged.                            *)
(***************************************************************************)
C26_EmptyGenerateNoOp ==
    [][(/\ lastEvent'.op \in {"generate", "generateRejected"}
        /\ lastEvent'.input = <<>>)
       => /\ lastEvent'.op = "generateRejected"
          /\ UNCHANGED <<currentItems, originalItems, currentOffset,
                         selectedIndex, isSpinning, lastTickIndex,
                         localStorage, rafQueue, frameQueue>>]_vars

\* an empty generate was rejected while a spin of a generated wheel was
\* running
C26_Witness ==
    /\ lastEvent.op = "generateRejected"
    /\ lastEvent.input = <<>>
    /\ isSpinning
    /\ rafQueue # <<>>
    /\ currentOffset > 0
    /\ Len(currentItems) = MaxItems
    /\ CURRENT_ITEMS \in DOMAIN localStorage

(***************************************************************************)
(* C27.  Loading a saved group regenerates the wheel: when the handler     *)
(* finishes, the wheel's items are a permutation of the loaded group's     *)
(* names and the retained original list equals the items.                  *)
(***************************************************************************)
C27_LoadGroupRegenerates ==
    lastEvent.op = "loadGroup" =>
        /\ IsPermutation(currentItems, lastEvent.group)
        /\ originalItems = currentItems

(***************************************************************************)
(* C28.  When a completed spin removes the last item, the persisted wheel  *)
(* state is cleared: after the completion frame neither the stored         *)
(* current-items entry nor the stored original-items entry is present.     *)
(***************************************************************************)
C28_LastRemovalClearsStorage ==
    (lastEvent.op = "settle" /\ Len(lastEvent.before) = 1
                             /\ currentItems = <<>>)
        => /\ CURRENT_ITEMS \notin DOMAIN localStorage
           /\ ORIGINAL_ITEMS \notin DOMAIN localStorage

(***************************************************************************)
(* The sound select while a wheel spins: a generated wheel, spins, frames  *)
(* and the change event of the select.  Generate, reset and load group     *)
(* are left out, so no loop outlives its spin here.                        *)
(***************************************************************************)
\* onSoundChange: the select fires change when another option is chosen
onSoundChange ==
    /\ Idle
    /\ \E value \in SoundOptions \ {currentSoundType} :
         /\ currentSoundType' = value
         /\ localStorage' = setItem(localStorage, SOUND_TYPE, value)
         /\ currentSpinSoundType' \in previewSoundType(value, cycleIndex)
    /\ lastEvent' = [op |-> "soundChange"]
    /\ UNCHANGED <<cycleIndex, revision, currentItems, originalItems,
                   currentOffset, isSpinning, selectedIndex, lastTickIndex,
                   rafQueue, frameQueue, clock, spinCount, settled, epoch>>

SoundItems == SubSeq(Labels, 1, MaxItems)

\* the page after loadSoundPreference, with no stored preference or with
\* any stored one, and after generate has put the labels on the wheel
SoundInit ==
    /\ revision = 2
    /\ currentItems = SoundItems
    /\ originalItems = SoundItems
    /\ currentOffset = 0
    /\ isSpinning = FALSE
    /\ selectedIndex = Null
    /\ lastTickIndex = -1
    /\ currentSoundType \in SoundOptions
    /\ \E choice \in setSpinSoundType(currentSoundType, 0) :
         /\ currentSpinSoundType = choice.sound
         /\ cycleIndex = choice.cycleIndex
    /\ localStorage =
           saveWheelState(IF currentSoundType = "classic" THEN NoStore
                          ELSE setItem(NoStore, SOUND_TYPE, currentSoundType),
                          SoundItems, SoundItems)
    /\ rafQueue = <<>>
    /\ frameQueue = <<>>
    /\ clock = 0
    /\ spinCount = 0
    /\ settled = <<>>
    /\ epoch = [list |-> SoundItems, base |-> 0, clean |-> TRUE]
    /\ lastEvent = [op |-> "generate", input |-> SoundItems]

SoundNext ==
    \/ SpinWheel
    \/ BeginFrame
    \/ AnimateStep
    \/ AnimateSettle
    \/ onSoundChange

SoundSpec == SoundInit /\ [][SoundNext]_vars

(***************************************************************************)
(* C29.  The tick sound type chosen by setSpinSoundType when a spin is     *)
(* accepted stays the one used for every tick of that spin: no step taken  *)
(* while the spin runs, from after its acceptance up to its completion     *)
(* frame, changes currentSpinSoundType.                                    *)
(***************************************************************************)
C29_SpinSoundFixed ==
    [][(isSpinning /\ isSpinning')
          => currentSpinSoundType' = currentSpinSoundType]_vars

(***************************************************************************)
(* shuffleArray on its own, applied once to a list of distinct names of    *)
(* any length up to MaxShuffle.                                            *)
(***************************************************************************)
MaxShuffle == 4

\* the runs of consecutive labels, the empty one included
ShuffleInputs ==
    {SubSeq(Labels, run[1], run[1] + run[2] - 1) :
        run \in {r \in (1..Len(Labels)) \X (0..MaxShuffle) :
                     r[1] + r[2] - 1 <= Len(Labels)}}

ShuffleInit ==
    /\ revision \in {1, 2}
    /\ currentItems \in ShuffleInputs
    /\ originalItems = <<>>
    /\ currentOffset = 0
    /\ isSpinning = FALSE
    /\ selectedIndex = Null
    /\ lastTickIndex = -1
    /\ localStorage = NoStore
    /\ rafQueue = <<>>
    /\ frameQueue = <<>>
    /\ clock = 0
    /\ spinCount = 0
    /\ settled = <<>>
    /\ epoch = [list |-> <<>>, base |-> 0, clean |-> FALSE]
    /\ lastEvent = [op |-> "load"]
    /\ currentSoundType = "classic"
    /\ currentSpinSoundType = "classic"
    /\ cycleIndex = 0

\* shuffleArray(items), as both revisions' generate handlers call it
ShuffleStep ==
    /\ lastEvent.op = "load"
    /\ \E items \in shuffleArray(currentItems) : currentItems' = items
    /\ lastEvent' = [op |-> "shuffle", input |-> currentItems]
    /\ UNCHANGED <<soundVars, revision, originalItems, currentOffset,
                   isSpinning, selectedIndex, lastTickIndex, localStorage,
                   rafQueue, frameQueue, clock, spinCount, settled, epoch>>

ShuffleNext == ShuffleStep

ShuffleSpec == ShuffleInit /\ [][ShuffleNext]_vars

\* every ordering of the elements of a list of distinct elements
Orderings(array) ==
    {p \in [DOMAIN array -> {array[i] : i \in DOMAIN array}] :
        \A i, j \in DOMAIN array : i # j => p[i] # p[j]}

RECURSIVE Factorial(_)
Factorial(n) == IF n <= 1 THEN 1 ELSE n * Factorial(n - 1)

(***************************************************************************)
(* C30.  shuffleArray only ever produces permutations of its input, and    *)
(* for every input of length n each of the n! orderings is a possible      *)
(* outcome of the random choices.                                          *)
(***************************************************************************)
C30_ShuffleAllOrderings ==
    lastEvent.op = "shuffle" =>
        LET outcomes == shuffleArray(lastEvent.input)
        IN  /\ IsPermutation(currentItems, lastEvent.input)
            /\ \A out \in outcomes : IsPermutation(out, lastEvent.input)
            /\ Orderings(lastEvent.input) \subseteq outcomes
            /\ Cardinality(outcomes) = Factorial(Len(lastEvent.input))

\* a list of MaxShuffle names came out of the shuffle reversed
C30_Witness ==
    /\ lastEvent.op = "shuffle"
    /\ Len(lastEvent.input) = MaxShuffle
    /\ \A i \in 1..MaxShuffle :
           currentItems[i] = lastEvent.input[MaxShuffle + 1 - i]
    /\ Cardinality(shuffleArray(lastEvent.input)) = Factorial(MaxShuffle)

====
